---- MODULE Spec2Model ----
(***************************************************************************)
(* Model of wirthual/vit-finetune: the LightningModule wrapper of          *)
(* src/src/model.py (ClassifcationModel) and the driver script             *)
(* src/train.py, as one state machine.  The driver runs top to bottom; the *)
(* framework's tune/fit/test entry points call back into the wrapper's     *)
(* hooks (configure_optimizers, training_step, validation_step,            *)
(* test_step).                                                             *)
(*                                                                         *)
(* Floats are held in fixed point: lr in 1e-2, momentum in 1e-1, betas in  *)
(* 1e-3, weight decay in 1e-2, accuracy in percent.  The trainer's         *)
(* training-step estimate is a float [whole, frac]: frac says whether it   *)
(* has a fractional part.  Values that come out of the external libraries  *)
(* (network output, the estimate, the cosine decay) are inputs drawn from  *)
(* small sets; the library constructors are taken to succeed on them.      *)
(***************************************************************************)
EXTENDS Integers, Sequences, FiniteSets, TLC

VARIABLES
    pc,                  \* position of the driver script (train.py)
    args,                \* parsed arguments
    logger,              \* init_logger(args)
    checkpoint_callback, \* the ModelCheckpoint callback
    dm,                  \* the data module
    model,               \* the ClassifcationModel instance (self)
    trainer,             \* the pl.Trainer
    calls,               \* what the driver has called so far, in order
    lastCall,            \* the hook the running entry point called last, and its outcome
    raised               \* the exception that ended the script, if any

vars == <<pc, args, logger, checkpoint_callback, dm, model, trainer, calls,
          lastCall, raised>>

None == [type |-> "NoneType"]

-----------------------------------------------------------------------------
(* Bounds of the model *)

MaxWarmup == 1      \* warmup_steps ranges over 0..MaxWarmup
MaxEst == 1         \* whole part of the trainer's step estimate: 0..MaxEst
MaxSteps == 2       \* optimizer steps taken by one fit

-----------------------------------------------------------------------------
(* Inputs *)

ArchNames == {"b16", "l16"}
OptimizerNames == {"adam", "adamw", "sgd", "SGD", "rmsprop"}
SchedulerNames == {"cosine", "none", "None", "linear"}
\* optimizer settings: (lr, betas, momentum, weight_decay); the first is the
\* constructor's default
HyperParams ==
    {[lr |-> 3, betas |-> <<900, 999>>, momentum |-> 9, weight_decay |-> 0],
     [lr |-> 1, betas |-> <<500, 990>>, momentum |-> 0, weight_decay |-> 2],
     [lr |-> 3, betas |-> <<500, 990>>, momentum |-> 0, weight_decay |-> 0]}
NClassesValues == {2}
LossValues == {0, 1}
LogitValues == {0, 1}
BatchLens == {1}

ModelArgs ==
    {[arch |-> a, optimizer |-> o, lr |-> h.lr, betas |-> h.betas,
      momentum |-> h.momentum, weight_decay |-> h.weight_decay,
      scheduler |-> sc, warmup_steps |-> w, n_classes |-> n,
      channels_last |-> cl] :
        a \in ArchNames, o \in OptimizerNames, h \in HyperParams,
        sc \in SchedulerNames, w \in 0..MaxWarmup, n \in NClassesValues,
        cl \in BOOLEAN}

DataArgs == [name |-> "data"]

\* what trainer.estimated_stepping_batches may yield: a finite float
Estimates == [whole : 0..MaxEst, frac : BOOLEAN]

Classes(n) == 0..(n - 1)

\* a batch (x, y) of n samples with labels among k classes
Batches(k) ==
    UNION {[x : {[id |-> "x", memory_format |-> "contiguous"]},
            y : [1..n -> Classes(k)]] : n \in BatchLens}

\* what the pretrained network computes for a batch: (loss, logits)
NetOutputs(batch, k) ==
    [loss : LossValues, logits : [DOMAIN batch.y -> [Classes(k) -> LogitValues]]]

-----------------------------------------------------------------------------
(* src/src/model.py *)

model_dict == [b16 |-> "google/vit-base-patch16-224-in21k"]

Accuracy == [type |-> "Accuracy"]

ConfigFields ==
    {"arch", "optimizer", "lr", "betas", "momentum", "weight_decay",
     "scheduler", "warmup_steps", "n_classes", "channels_last"}

\* the attributes __init__ sets on self
new_self(kw) ==
    [arch |-> kw.arch,
     optimizer |-> kw.optimizer,
     lr |-> kw.lr,
     betas |-> kw.betas,
     momentum |-> kw.momentum,
     weight_decay |-> kw.weight_decay,
     scheduler |-> kw.scheduler,
     warmup_steps |-> kw.warmup_steps,
     n_classes |-> kw.n_classes,
     channels_last |-> kw.channels_last,
     net |-> [pretrained |-> model_dict[kw.arch],
              num_labels |-> kw.n_classes,
              memory_format |-> IF kw.channels_last THEN "channels_last"
                                ELSE "contiguous"],
     train_acc |-> Accuracy,
     val_acc |-> Accuracy]

\* variant of __init__: the optimizer and scheduler names are checked when
\* the wrapper is constructed
ClassifcationModel_ChecksNames(kw) ==
    IF kw.optimizer \notin {"adam", "adamw", "sgd"}
    THEN [raised |-> [type |-> "ValueError", msg |-> <<kw.optimizer>>]]
    ELSE IF kw.scheduler \notin {"cosine", "none"}
    THEN [raised |-> [type |-> "ValueError", msg |-> <<kw.scheduler>>]]
    ELSE IF kw.arch \notin DOMAIN model_dict
    THEN [raised |-> [type |-> "KeyError", msg |-> <<kw.arch>>]]
    ELSE [raised |-> None, self |-> new_self(kw)]

\* ClassifcationModel.__init__(**kw): model_dict[arch] raises KeyError for an
\* architecture that is not in the dictionary
ClassifcationModel(kw) ==
    IF kw.arch \notin DOMAIN model_dict
    THEN [raised |-> [type |-> "KeyError", msg |-> <<kw.arch>>]]
    ELSE [raised |-> None, self |-> new_self(kw)]

\* the configuration fields of self, as a record
Config(s) == [f \in ConfigFields |-> s[f]]

\* forward(self, x, y): out is what self.net computes for the batch
forward(s, x, y, out) ==
    LET xin == IF s.channels_last
               THEN [x EXCEPT !.memory_format = "channels_last"]
               ELSE x
    IN  [pixel_values |-> xin, labels |-> y, loss |-> out.loss,
         logits |-> out.logits]

\* row.argmax(): the first index holding the largest value
argmax(row) ==
    CHOOSE c \in DOMAIN row :
        /\ \A d \in DOMAIN row : row[d] <= row[c]
        /\ \A d \in DOMAIN row : row[d] = row[c] => c <= d

\* Accuracy()(pred, y): the share of matching predictions, in percent
AccuracyOf(pred, y) ==
    (100 * Cardinality({i \in DOMAIN y : pred[i] = y[i]})) \div Len(y)

\* getattr(self, name)
getattr(s, name) ==
    IF name \in DOMAIN s
    THEN [raised |-> None, value |-> s[name]]
    ELSE [raised |-> [type |-> "AttributeError", msg |-> <<name>>]]

\* shared_step(self, batch, mode)
shared_step(s, batch, out, mode) ==
    LET fw == forward(s, batch.x, batch.y, out)
        pred == [i \in DOMAIN fw.logits |-> argmax(fw.logits[i])]
        metric == getattr(s, mode \o "_acc")
    IN  IF metric.raised # None
        THEN [raised |-> metric.raised, logs |-> <<>>]
        ELSE [raised |-> None,
              logs |-> << <<mode \o "_loss", fw.loss>>,
                          <<mode \o "_acc", AccuracyOf(pred, batch.y)>> >>,
              ret |-> fw.loss]

\* training_step(self, batch, _)
training_step(s, tr, batch, out) ==
    LET lrlog == << <<"lr", tr.optimizers[1].param_groups[1].lr>> >>
        r == shared_step(s, batch, out, "train")
    IN  [r EXCEPT !.logs = lrlog \o r.logs]

\* validation_step(self, batch, _)
validation_step(s, batch, out) == shared_step(s, batch, out, "val")

\* test_step(self, batch, _)
test_step(s, batch, out) == shared_step(s, batch, out, "test")

-----------------------------------------------------------------------------
(* torch.optim and the schedulers, as far as configure_optimizers uses them *)

\* Adam(params, lr=, betas=, weight_decay=); oid names the new object
Adam(params, lr, betas, weight_decay, oid) ==
    [id |-> oid, type |-> "Adam",
     defaults |-> [lr |-> lr, betas |-> betas, weight_decay |-> weight_decay],
     param_groups |-> <<[params |-> params, lr |-> lr, betas |-> betas,
                         weight_decay |-> weight_decay]>>]

\* AdamW(params, lr=, betas=, weight_decay=)
AdamW(params, lr, betas, weight_decay, oid) ==
    [id |-> oid, type |-> "AdamW",
     defaults |-> [lr |-> lr, betas |-> betas, weight_decay |-> weight_decay],
     param_groups |-> <<[params |-> params, lr |-> lr, betas |-> betas,
                         weight_decay |-> weight_decay]>>]

\* SGD(params, lr=, momentum=, weight_decay=)
SGD(params, lr, momentum, weight_decay, oid) ==
    [id |-> oid, type |-> "SGD",
     defaults |-> [lr |-> lr, momentum |-> momentum,
                   weight_decay |-> weight_decay],
     param_groups |-> <<[params |-> params, lr |-> lr, momentum |-> momentum,
                         weight_decay |-> weight_decay]>>]

Max(a, b) == IF a >= b THEN a ELSE b

\* The learning rates a LambdaLR may set at epoch e from the base rate.
\* "const" is lambda _: 1.  The cosine schedule ramps linearly over the
\* warmup, is 1 where the decay starts and 0 where it ends; its other values
\* lie between 0 and 1 and are left open.
ScheduledLrs(lr_lambda, base, e) ==
    IF lr_lambda.kind = "const" THEN {base * lr_lambda.value}
    ELSE LET w == lr_lambda.num_warmup_steps
             T == lr_lambda.num_training_steps
         IN  IF e < w THEN {(base * e) \div Max(1, w)}
             ELSE IF e = w THEN {base}
             ELSE IF e - w = Max(1, T - w) THEN {0}
             ELSE 0..base

\* LambdaLR(optimizer, lr_lambda): remembers the base rate and makes the
\* initial step, which sets the optimizer's rate for epoch 0
LambdaLR(optimizer, lr_lambda) ==
    LET base == optimizer.param_groups[1].lr
        lr0 == CHOOSE v \in ScheduledLrs(lr_lambda, base, 0) : TRUE
    IN  [scheduler |-> [type |-> "LambdaLR", optimizer |-> optimizer.id,
                        lr_lambda |-> lr_lambda, base_lrs |-> <<base>>,
                        last_epoch |-> 0],
         optimizer |-> [optimizer EXCEPT !.param_groups[1].lr = lr0]]

\* get_cosine_schedule_with_warmup(optimizer, num_training_steps=, num_warmup_steps=)
get_cosine_schedule_with_warmup(optimizer, num_training_steps, num_warmup_steps) ==
    LambdaLR(optimizer,
             [kind |-> "cosine_with_warmup",
              num_warmup_steps |-> num_warmup_steps,
              num_training_steps |-> num_training_steps])

\* int(x) of a float: the fractional part is dropped
int(x) == x.whole

ValueError(parts) == [type |-> "ValueError", msg |-> parts]

\* variant of the optimizer branch: 'adamw' builds a plain Adam
build_optimizer_AdamForAdamW(s, oid) ==
    IF s.optimizer \in {"adam", "adamw"}
    THEN Adam(s.net.pretrained, s.lr, s.betas, s.weight_decay, oid)
    ELSE IF s.optimizer = "sgd"
    THEN SGD(s.net.pretrained, s.lr, s.momentum, s.weight_decay, oid)
    ELSE None

\* "# Initialize optimizer": the optimizer for self.optimizer, None where the
\* chain of comparisons falls through to the else branch
build_optimizer(s, oid) ==
    IF s.optimizer = "adam"
    THEN Adam(s.net.pretrained, s.lr, s.betas, s.weight_decay, oid)
    ELSE IF s.optimizer = "adamw"
    THEN AdamW(s.net.pretrained, s.lr, s.betas, s.weight_decay, oid)
    ELSE IF s.optimizer = "sgd"
    THEN SGD(s.net.pretrained, s.lr, s.momentum, s.weight_decay, oid)
    ELSE None

\* the f-string raised for an unknown optimizer, in its parts
optimizer_error(s) ==
    ValueError(<<s.optimizer,
                 " is not an available optimizer. Should be one of ",
                 "['adam', 'adamw', 'sgd']">>)

\* variant of the scheduler branch: the two step counts change places
build_scheduler_SwappedSteps(s, optimizer, est) ==
    IF s.scheduler = "cosine"
    THEN [made |-> get_cosine_schedule_with_warmup(optimizer, s.warmup_steps,
                                                   int(est)),
          est_read |-> TRUE]
    ELSE IF s.scheduler = "none"
    THEN [made |-> LambdaLR(optimizer, [kind |-> "const", value |-> 1]),
          est_read |-> FALSE]
    ELSE None

\* "# Initialize learning rate scheduler": the scheduler for self.scheduler
\* on the optimizer, None where the else branch is taken; est is what
\* self.trainer.estimated_stepping_batches yields, read for "cosine" only
build_scheduler(s, optimizer, est) ==
    IF s.scheduler = "cosine"
    THEN [made |-> get_cosine_schedule_with_warmup(optimizer, int(est),
                                                   s.warmup_steps),
          est_read |-> TRUE]
    ELSE IF s.scheduler = "none"
    THEN [made |-> LambdaLR(optimizer, [kind |-> "const", value |-> 1]),
          est_read |-> FALSE]
    ELSE None

\* variant of the scheduler message: it lists the optimizers
scheduler_error_ListsOptimizers(s) ==
    ValueError(<<s.scheduler,
                 " is not an available optimizer. Should be one of ",
                 "['adam', 'adamw', 'sgd']">>)

\* the f-string raised for an unknown scheduler, in its parts
scheduler_error(s) ==
    ValueError(<<s.scheduler,
                 " is not an available optimizer. Should be one of ",
                 "['cosine', 'none']">>)

\* variant of the returned dictionary: the scheduler steps once per epoch
optimizers_dict_PerEpoch(optimizer, scheduler) ==
    [optimizer |-> optimizer,
     lr_scheduler |-> [scheduler |-> scheduler, interval |-> "epoch"]]

\* the dictionary configure_optimizers returns
optimizers_dict(optimizer, scheduler) ==
    [optimizer |-> optimizer,
     lr_scheduler |-> [scheduler |-> scheduler, interval |-> "step"]]

\* variant of configure_optimizers: the scheduler name is checked first
configure_optimizers_SchedulerFirst(s, est, oid) ==
    LET optimizer == build_optimizer(s, oid)
        sched == build_scheduler(s, optimizer, est)
    IN  IF s.scheduler \notin {"cosine", "none"}
        THEN [raised |-> scheduler_error(s), est_read |-> FALSE, built |-> <<>>]
        ELSE IF optimizer = None
        THEN [raised |-> optimizer_error(s), est_read |-> FALSE, built |-> <<>>]
        ELSE [raised |-> None,
              est_read |-> sched.est_read,
              built |-> <<optimizer.type, sched.made.scheduler.type>>,
              ret |-> optimizers_dict(sched.made.optimizer,
                                      sched.made.scheduler)]

\* configure_optimizers(self).  est_read and built record whether the
\* trainer's estimate was read and which objects were constructed before the
\* method returned or raised.
configure_optimizers(s, est, oid) ==
    LET optimizer == build_optimizer(s, oid)
        sched == build_scheduler(s, optimizer, est)
    IN  IF optimizer = None
        THEN [raised |-> optimizer_error(s), est_read |-> FALSE, built |-> <<>>]
        ELSE IF sched = None
        THEN [raised |-> scheduler_error(s), est_read |-> FALSE,
              built |-> <<optimizer.type>>]
        ELSE [raised |-> None,
              est_read |-> sched.est_read,
              built |-> <<optimizer.type, sched.made.scheduler.type>>,
              ret |-> optimizers_dict(sched.made.optimizer,
                                      sched.made.scheduler)]

-----------------------------------------------------------------------------
(* src/train.py *)

NoCall == [hook |-> "none"]

\* variant of the callback: it follows the validation loss
ModelCheckpoint_MonitorsLoss ==
    [type |-> "ModelCheckpoint",
     filename |-> <<[lit |-> "best-"], [field |-> "epoch", format |-> ""],
                    [lit |-> "-"], [field |-> "val_loss", format |-> ".4f"]>>,
     monitor |-> "val_loss",
     mode |-> "min",
     save_last |-> TRUE]

\* ModelCheckpoint(filename="best-{epoch}-{val_acc:.4f}", monitor="val_acc",
\*                 mode="max", save_last=True); the template is held in parts
ModelCheckpoint ==
    [type |-> "ModelCheckpoint",
     filename |-> <<[lit |-> "best-"], [field |-> "epoch", format |-> ""],
                    [lit |-> "-"], [field |-> "val_acc", format |-> ".4f"]>>,
     monitor |-> "val_acc",
     mode |-> "max",
     save_last |-> TRUE]

Init ==
    /\ pc = "parse_args"
    /\ args = None
    /\ logger = None
    /\ checkpoint_callback = None
    /\ dm = None
    /\ model = None
    /\ trainer = None
    /\ calls = <<>>
    /\ lastCall = NoCall
    /\ raised = None

\* args = parser.parse_args()
ParseArgs ==
    /\ pc = "parse_args"
    /\ \E m \in ModelArgs, t \in BOOLEAN :
          args' = [data |-> DataArgs, model |-> m, test_at_end |-> t]
    /\ calls' = Append(calls, "parse_args")
    /\ pc' = "init_logger"
    /\ UNCHANGED <<logger, checkpoint_callback, dm, model, trainer, lastCall,
                   raised>>

\* logger = init_logger(args)
InitLogger ==
    /\ pc = "init_logger"
    /\ logger' = [type |-> "Logger"]
    /\ calls' = Append(calls, "init_logger")
    /\ pc' = "checkpoint_callback"
    /\ UNCHANGED <<args, checkpoint_callback, dm, model, trainer, lastCall,
                   raised>>

\* checkpoint_callback = ModelCheckpoint(...)
MakeCheckpointCallback ==
    /\ pc = "checkpoint_callback"
    /\ checkpoint_callback' = ModelCheckpoint
    /\ calls' = Append(calls, "ModelCheckpoint")
    /\ pc' = "dm"
    /\ UNCHANGED <<args, logger, dm, model, trainer, lastCall, raised>>

\* dm = dm_class(**args["data"])
MakeDataModule ==
    /\ pc = "dm"
    /\ dm' = [type |-> "FFCVDataModule", kwargs |-> args.data]
    /\ calls' = Append(calls, "dm_class")
    /\ pc' = "model"
    /\ UNCHANGED <<args, logger, checkpoint_callback, model, trainer, lastCall,
                   raised>>

\* model = model_class(**args["model"])
MakeModel ==
    /\ pc = "model"
    /\ calls' = Append(calls, "model_class")
    /\ LET r == ClassifcationModel(args.model)
       IN  IF r.raised # None
           THEN /\ raised' = r.raised
                /\ pc' = "failed"
                /\ UNCHANGED model
           ELSE /\ model' = r.self
                /\ pc' = "trainer"
                /\ UNCHANGED raised
    /\ UNCHANGED <<args, logger, checkpoint_callback, dm, trainer, lastCall>>

\* trainer = pl.Trainer.from_argparse_args(args, logger=logger,
\*                                         callbacks=[checkpoint_callback])
MakeTrainer ==
    /\ pc = "trainer"
    /\ trainer' = [logger |-> logger,
                   callbacks |-> <<checkpoint_callback>>,
                   optimizers |-> <<>>,
                   lr_scheduler_configs |-> <<>>,
                   global_step |-> 0]
    /\ calls' = Append(calls, "Trainer")
    /\ pc' = "tune"
    /\ UNCHANGED <<args, logger, checkpoint_callback, dm, model, lastCall,
                   raised>>

\* trainer.tune(model, dm) is called
TuneCall ==
    /\ pc = "tune"
    /\ calls' = Append(calls, "tune")
    /\ pc' = "in_tune"
    /\ UNCHANGED <<args, logger, checkpoint_callback, dm, model, trainer,
                   lastCall, raised>>

\* inside tune, a tuner that runs the model (the learning-rate finder) asks
\* the model for its optimizers; the trainer's own state is restored after
TuneConfigureOptimizers ==
    /\ pc = "in_tune"
    /\ lastCall = NoCall
    /\ \E est \in Estimates :
          LET r == configure_optimizers(model, est, Len(calls))
          IN  /\ lastCall' = [hook |-> "configure_optimizers", est |-> est,
                              result |-> r]
              /\ IF r.raised # None
                 THEN raised' = r.raised /\ pc' = "failed"
                 ELSE UNCHANGED <<raised, pc>>
    /\ UNCHANGED <<args, logger, checkpoint_callback, dm, model, trainer,
                   calls>>

\* trainer.tune returns
TuneReturn ==
    /\ pc = "in_tune"
    /\ calls' = Append(calls, "tune.return")
    /\ pc' = "fit"
    /\ lastCall' = NoCall
    /\ UNCHANGED <<args, logger, checkpoint_callback, dm, model, trainer,
                   raised>>

\* trainer.fit(model, dm) is called
FitCall ==
    /\ pc = "fit"
    /\ calls' = Append(calls, "fit")
    /\ pc' = "in_fit"
    /\ UNCHANGED <<args, logger, checkpoint_callback, dm, model, trainer,
                   lastCall, raised>>

\* fit sets up the optimizers: it calls model.configure_optimizers() and
\* keeps the optimizer and the scheduler configuration returned
FitConfigureOptimizers ==
    /\ pc = "in_fit"
    /\ trainer.optimizers = <<>>
    /\ \E est \in Estimates :
          LET r == configure_optimizers(model, est, Len(calls))
          IN  /\ lastCall' = [hook |-> "configure_optimizers", est |-> est,
                              result |-> r]
              /\ IF r.raised # None
                 THEN /\ raised' = r.raised
                      /\ pc' = "failed"
                      /\ UNCHANGED trainer
                 ELSE /\ trainer' =
                            [trainer EXCEPT
                                !.optimizers = <<r.ret.optimizer>>,
                                !.lr_scheduler_configs = <<r.ret.lr_scheduler>>]
                      /\ UNCHANGED <<raised, pc>>
    /\ UNCHANGED <<args, logger, checkpoint_callback, dm, model, calls>>

\* the scheduler is in step with the optimizer steps taken
InLoop ==
    /\ pc = "in_fit"
    /\ trainer.optimizers # <<>>
    /\ trainer.lr_scheduler_configs[1].scheduler.last_epoch = trainer.global_step

\* a hook call that leaves everything but lastCall, raised and pc alone
HookOutcome(hook, batch, out, r) ==
    /\ lastCall' = [hook |-> hook, batch |-> batch, out |-> out, result |-> r]
    /\ IF r.raised # None
       THEN raised' = r.raised /\ pc' = "failed"
       ELSE UNCHANGED <<raised, pc>>

\* variant of the training step: the hook stores the current learning rate
\* in self.lr
TrainingStep_StoresLr ==
    /\ InLoop
    /\ trainer.global_step < MaxSteps
    /\ \E batch \in Batches(model.n_classes) :
          \E out \in NetOutputs(batch, model.n_classes) :
             HookOutcome("training_step", batch, out,
                         training_step(model, trainer, batch, out))
    /\ trainer' = [trainer EXCEPT !.global_step = @ + 1]
    /\ model' = [model EXCEPT !.lr = trainer.optimizers[1].param_groups[1].lr]
    /\ UNCHANGED <<args, logger, checkpoint_callback, dm, calls>>

\* the fit loop runs model.training_step(batch, i) and steps the optimizer
TrainingStep ==
    /\ InLoop
    /\ trainer.global_step < MaxSteps
    /\ \E batch \in Batches(model.n_classes) :
          \E out \in NetOutputs(batch, model.n_classes) :
             HookOutcome("training_step", batch, out,
                         training_step(model, trainer, batch, out))
    /\ trainer' = [trainer EXCEPT !.global_step = @ + 1]
    /\ UNCHANGED <<args, logger, checkpoint_callback, dm, model, calls>>

\* after each optimizer step (interval "step") the scheduler steps and sets
\* the optimizer's learning rate
LrSchedulerStep ==
    /\ pc = "in_fit"
    /\ trainer.optimizers # <<>>
    /\ trainer.lr_scheduler_configs[1].scheduler.last_epoch < trainer.global_step
    /\ LET sch == trainer.lr_scheduler_configs[1].scheduler
           e == sch.last_epoch + 1
       IN  \E lr \in ScheduledLrs(sch.lr_lambda, sch.base_lrs[1], e) :
              trainer' =
                 [trainer EXCEPT
                     !.lr_scheduler_configs[1].scheduler.last_epoch = e,
                     !.optimizers[1].param_groups[1].lr = lr]
    /\ UNCHANGED <<pc, args, logger, checkpoint_callback, dm, model, calls,
                   lastCall, raised>>

\* the fit loop runs model.validation_step(batch, i)
ValidationStep ==
    /\ InLoop
    /\ \E batch \in Batches(model.n_classes) :
          \E out \in NetOutputs(batch, model.n_classes) :
             HookOutcome("validation_step", batch, out,
                         validation_step(model, batch, out))
    /\ UNCHANGED <<args, logger, checkpoint_callback, dm, model, trainer, calls>>

\* trainer.fit returns
FitReturn ==
    /\ InLoop
    /\ calls' = Append(calls, "fit.return")
    /\ pc' = "test"
    /\ lastCall' = NoCall
    /\ UNCHANGED <<args, logger, checkpoint_callback, dm, model, trainer,
                   raised>>

\* variant of the last statement: the test pass runs whatever the flag says
TestCall_Unconditional ==
    /\ pc = "test"
    /\ calls' = Append(calls, "test")
    /\ pc' = "in_test"
    /\ UNCHANGED <<args, logger, checkpoint_callback, dm, model, trainer,
                   lastCall, raised>>

\* if args["test_at_end"]: trainer.test() is called
TestCall ==
    /\ pc = "test"
    /\ args.test_at_end
    /\ calls' = Append(calls, "test")
    /\ pc' = "in_test"
    /\ UNCHANGED <<args, logger, checkpoint_callback, dm, model, trainer,
                   lastCall, raised>>

\* the flag is not set: the script ends
SkipTest ==
    /\ pc = "test"
    /\ ~args.test_at_end
    /\ pc' = "done"
    /\ UNCHANGED <<args, logger, checkpoint_callback, dm, model, trainer,
                   calls, lastCall, raised>>

\* the test loop runs model.test_step(batch, i)
TestStep ==
    /\ pc = "in_test"
    /\ \E batch \in Batches(model.n_classes) :
          \E out \in NetOutputs(batch, model.n_classes) :
             HookOutcome("test_step", batch, out, test_step(model, batch, out))
    /\ UNCHANGED <<args, logger, checkpoint_callback, dm, model, trainer, calls>>

\* trainer.test returns (the test set has no batch left)
TestReturn ==
    /\ pc = "in_test"
    /\ calls' = Append(calls, "test.return")
    /\ pc' = "done"
    /\ lastCall' = NoCall
    /\ UNCHANGED <<args, logger, checkpoint_callback, dm, model, trainer,
                   raised>>

Next ==
    \/ ParseArgs
    \/ InitLogger
    \/ MakeCheckpointCallback
    \/ MakeDataModule
    \/ MakeModel
    \/ MakeTrainer
    \/ TuneCall
    \/ TuneConfigureOptimizers
    \/ TuneReturn
    \/ FitCall
    \/ FitConfigureOptimizers
    \/ TrainingStep
    \/ LrSchedulerStep
    \/ ValidationStep
    \/ FitReturn
    \/ TestCall
    \/ SkipTest
    \/ TestStep
    \/ TestReturn

Spec == Init /\ [][Next]_vars

-----------------------------------------------------------------------------
(* Properties *)

Range(q) == {q[i] : i \in DOMAIN q}
Called(name) == name \in Range(calls)
IsPrefix(a, b) == Len(a) <= Len(b) /\ a = SubSeq(b, 1, Len(a))

ValidOptimizers == {"adam", "adamw", "sgd"}
ValidSchedulers == {"cosine", "none"}

\* configure_optimizers was the last hook called; its outcome is lastCall.result
Configured == lastCall.hook = "configure_optimizers"

\* the arguments name an optimizer or a scheduler the factory does not know
BadName ==
    /\ args # None
    /\ \/ args.model.optimizer \notin ValidOptimizers
       \/ args.model.scheduler \notin ValidSchedulers

\* C1: for each of 'adam', 'adamw' and 'sgd' (with a known scheduler) and all
\* configured values, configure_optimizers returns an optimizer of the
\* matching kind (Adam, AdamW, SGD) that was built over the network's
\* parameters with the configured lr and weight decay, with the configured
\* betas for adam and adamw and the configured momentum for sgd.
C1_OptimizerCarriesConfig ==
    (/\ Configured
     /\ args.model.optimizer \in ValidOptimizers
     /\ args.model.scheduler \in ValidSchedulers)
    => /\ lastCall.result.raised = None
       /\ LET o == lastCall.result.ret.optimizer
              g == o.param_groups[1]
              c == args.model
          IN  /\ c.optimizer = "adam" => o.type = "Adam"
              /\ c.optimizer = "adamw" => o.type = "AdamW"
              /\ c.optimizer = "sgd" => o.type = "SGD"
              /\ Len(o.param_groups) = 1
              /\ g.params = model.net.pretrained
              /\ o.defaults.lr = c.lr /\ o.defaults.weight_decay = c.weight_decay
              /\ g.weight_decay = c.weight_decay
              /\ c.optimizer \in {"adam", "adamw"}
                    => /\ o.defaults.betas = c.betas /\ g.betas = c.betas
                       /\ DOMAIN o.defaults = {"lr", "betas", "weight_decay"}
              /\ c.optimizer = "sgd"
                    => /\ o.defaults.momentum = c.momentum
                       /\ g.momentum = c.momentum
                       /\ DOMAIN o.defaults = {"lr", "momentum", "weight_decay"}

C1_Witness ==
    /\ Configured
    /\ lastCall.result.raised = None
    /\ lastCall.result.ret.optimizer.type = "AdamW"
    /\ lastCall.result.ret.optimizer.defaults.betas = <<500, 990>>
    /\ lastCall.result.ret.optimizer.defaults.lr = 1

\* C2: for an optimizer name other than 'adam', 'adamw', 'sgd', and for a
\* scheduler name other than 'cosine', 'none' with a valid optimizer name,
\* configure_optimizers raises a ValueError whose message starts with the
\* invalid value and ends with the valid set of that option, and returns
\* nothing: the trainer gets no optimizer and no scheduler.
C2_UnknownNameRaises ==
    Configured =>
      LET r == lastCall.result
          c == args.model
      IN  /\ c.optimizer \notin ValidOptimizers
                => /\ r.raised.type = "ValueError"
                   /\ r.raised.msg[1] = c.optimizer
                   /\ r.raised.msg[Len(r.raised.msg)] = "['adam', 'adamw', 'sgd']"
          /\ (c.optimizer \in ValidOptimizers /\ c.scheduler \notin ValidSchedulers)
                => /\ r.raised.type = "ValueError"
                   /\ r.raised.msg[1] = c.scheduler
                   /\ r.raised.msg[Len(r.raised.msg)] = "['cosine', 'none']"
          /\ BadName
                => /\ "ret" \notin DOMAIN r
                   /\ raised = r.raised
                   /\ pc = "failed"
                   /\ trainer.optimizers = <<>>
                   /\ trainer.lr_scheduler_configs = <<>>

C2_Witness ==
    /\ Configured
    /\ args.model.optimizer = "sgd"
    /\ args.model.scheduler = "linear"
    /\ raised # None
    /\ raised.msg[1] = "linear"

\* C3 as stated: with an unrecognized optimizer or scheduler name the model
\* wrapper cannot be constructed, so the driver never gets to invoke tune,
\* fit or test.
C3_Original ==
    BadName => ~Called("tune") /\ ~Called("fit") /\ ~Called("test")

\* C3 amended: an unrecognized optimizer or scheduler name does not stop the
\* construction of the model wrapper; the ValueError comes out of
\* configure_optimizers, which the framework first calls inside tune or fit,
\* so it is raised after the driver has invoked tune, and it ends the run
\* before fit returns and before test is invoked.
C3_RaisedInsideTuneOrFit ==
    /\ (BadName /\ Called("model_class") /\ args.model.arch \in DOMAIN model_dict)
          => /\ model # None
             /\ Config(model) = args.model
    /\ (raised # None /\ raised.type = "ValueError")
          => /\ BadName
             /\ Configured
             /\ lastCall.result.raised = raised
             /\ model # None
             /\ Called("tune")
             /\ pc = "failed"
    /\ BadName => ~Called("fit.return") /\ ~Called("test")

C3_Witness ==
    /\ BadName
    /\ raised # None
    /\ raised.type = "ValueError"
    /\ calls[Len(calls)] = "fit"

ScriptOrder ==
    <<"parse_args", "init_logger", "ModelCheckpoint", "dm_class", "model_class",
      "Trainer", "tune", "tune.return", "fit", "fit.return", "test",
      "test.return">>

\* C5: what the driver has called is always an initial part of: parse the
\* arguments, build the data module and the model, tune, fit, test; so test
\* is called only after fit has returned, and only with test_at_end set.
C5_EntryPointsInSequence ==
    /\ IsPrefix(calls, ScriptOrder)
    /\ Called("test") => args.test_at_end /\ Called("fit.return")
    /\ Called("fit") => Called("tune.return")
    /\ Called("tune") => /\ args # None /\ dm # None /\ model # None
                         /\ trainer # None
    /\ (pc = "done" /\ ~args.test_at_end) => ~Called("test")

C5_Witness ==
    /\ Called("test")
    /\ calls[Len(calls)] = "test"
    /\ args.test_at_end

\* C6: once the model wrapper is constructed, its configuration fields equal
\* the constructor's arguments, whatever hooks have been called since.
C6_ConfigImmutable ==
    model # None => Config(model) = args.model

C6_Witness ==
    /\ model # None
    /\ lastCall.hook = "test_step"
    /\ trainer.global_step = MaxSteps
    /\ trainer.lr_scheduler_configs[1].scheduler.last_epoch = MaxSteps

StepHooks == {"training_step", "validation_step", "test_step"}

ModeOf(hook) ==
    IF hook = "training_step" THEN "train"
    ELSE IF hook = "validation_step" THEN "val" ELSE "test"

\* C7 as stated: each of training_step, validation_step and test_step runs
\* without failing for lack of a metric, returns the network's loss and emits
\* '<mode>_loss' with that loss and '<mode>_acc' with the accuracy of the
\* argmax predictions against the labels.
C7_EveryStepHasItsMetric ==
    lastCall.hook \in StepHooks =>
      LET r == lastCall.result
          mode == ModeOf(lastCall.hook)
          y == lastCall.batch.y
          pred == [i \in DOMAIN y |-> argmax(lastCall.out.logits[i])]
      IN  /\ r.raised = None
          /\ r.ret = lastCall.out.loss
          /\ <<mode \o "_loss", lastCall.out.loss>> \in Range(r.logs)
          /\ <<mode \o "_acc", AccuracyOf(pred, y)>> \in Range(r.logs)

\* C8: the checkpoint callback monitors 'val_acc' in mode 'max' and keeps the
\* last checkpoint, its file name template embeds the epoch and val_acc,
\* every validation step emits a metric of the monitored name, and the
\* trainer holds exactly this callback from before tune is called.
C8_CheckpointPolicy ==
    /\ checkpoint_callback # None
          => /\ checkpoint_callback.monitor = "val_acc"
             /\ checkpoint_callback.mode = "max"
             /\ checkpoint_callback.save_last
             /\ [field |-> "epoch", format |-> ""]
                    \in Range(checkpoint_callback.filename)
             /\ [field |-> checkpoint_callback.monitor, format |-> ".4f"]
                    \in Range(checkpoint_callback.filename)
    /\ lastCall.hook = "validation_step"
          => /\ lastCall.result.raised = None
             /\ \E l \in Range(lastCall.result.logs) :
                   l[1] = checkpoint_callback.monitor
    /\ trainer # None
          => /\ checkpoint_callback # None
             /\ trainer.callbacks = <<checkpoint_callback>>
    /\ Called("tune") => trainer # None

C8_Witness ==
    /\ lastCall.hook = "validation_step"
    /\ <<"val_acc", 100>> \in Range(lastCall.result.logs)
    /\ trainer.callbacks[1].monitor = "val_acc"

\* C9: with an unrecognized optimizer name configure_optimizers raises the
\* optimizer error whether or not the scheduler name is valid, having built
\* no object and not having read the trainer's step estimate.
C9_OptimizerCheckedFirst ==
    (Configured /\ args.model.optimizer \notin ValidOptimizers)
    => LET r == lastCall.result
       IN  /\ r.raised = ValueError(<<args.model.optimizer,
                             " is not an available optimizer. Should be one of ",
                             "['adam', 'adamw', 'sgd']">>)
           /\ ~r.est_read
           /\ r.built = <<>>

C9_Witness ==
    /\ Configured
    /\ args.model.optimizer = "rmsprop"
    /\ args.model.scheduler = "linear"
    /\ raised # None

\* C10: for each valid optimizer name and valid scheduler name,
\* configure_optimizers returns one optimizer and one scheduler on that same
\* optimizer, stepped per 'step'; with scheduler 'none' the optimizer's
\* learning rate equals the configured lr after every scheduler step.
C10_OneOptimizerOneScheduler ==
    /\ (/\ Configured
        /\ args.model.optimizer \in ValidOptimizers
        /\ args.model.scheduler \in ValidSchedulers)
       => LET r == lastCall.result
          IN  /\ r.raised = None
              /\ DOMAIN r.ret = {"optimizer", "lr_scheduler"}
              /\ DOMAIN r.ret.lr_scheduler = {"scheduler", "interval"}
              /\ r.ret.lr_scheduler.interval = "step"
              /\ r.ret.lr_scheduler.scheduler.optimizer = r.ret.optimizer.id
              /\ Len(r.built) = 2
    /\ (trainer # None /\ trainer.optimizers # <<>>)
       => /\ Len(trainer.optimizers) = 1
          /\ Len(trainer.lr_scheduler_configs) = 1
          /\ trainer.lr_scheduler_configs[1].scheduler.optimizer
                = trainer.optimizers[1].id
          /\ args.model.scheduler = "none"
                => /\ trainer.lr_scheduler_configs[1].scheduler.lr_lambda
                         = [kind |-> "const", value |-> 1]
                   /\ trainer.optimizers[1].param_groups[1].lr = args.model.lr

C10_Witness ==
    /\ trainer # None
    /\ trainer.optimizers # <<>>
    /\ args.model.scheduler = "none"
    /\ trainer.lr_scheduler_configs[1].scheduler.last_epoch = MaxSteps
    /\ trainer.optimizers[1].param_groups[1].lr = 1

====
